---- MODULE Spec2Model ----
(***************************************************************************)
(* A model of ApolloGateway (packages/apollo-gateway/src/index.ts): the    *)
(* gateway object's fields, its constructor, load(), createSchema(),       *)
(* createServices(), loadServiceDefinitions() and the executor, each       *)
(* asynchronous method cut at its awaits.                                   *)
(***************************************************************************)
EXTENDS Integers, Sequences, FiniteSets, TLC

\* ------------------------------------------------------------------ bounds

\* Number of load() calls made on the gateway.
MaxLoads == 2
\* Number of executor invocations made on the gateway.
MaxReqs == 2

Loads == 1..MaxLoads
Reqs == 1..MaxReqs

\* ------------------------------------------------------- service definitions

\* A ServiceDefinition: its name, its url ("none": no url) and whether its
\* typeDefs compose without errors.
Def(n, u, ok) == [name |-> n, url |-> u, ok |-> ok]

ServiceNames == {"a", "b"}

\* The endpoint lists (name and url) a configuration can name.
Endpoint(n, u) == [name |-> n, url |-> u]
EndpointsA == <<Endpoint("a", "u1")>>
EndpointsAB == <<Endpoint("a", "u2"), Endpoint("b", "u1")>>
EndpointsNoUrl == <<Endpoint("a", "u2"), Endpoint("b", "none")>>
EndpointLists == {EndpointsA, EndpointsAB, EndpointsNoUrl}

\* The definitions obtained for an endpoint list: all of them compose
\* (good), or the last one carries typeDefs that do not.
WithTypeDefs(eps, good) ==
  [i \in DOMAIN eps |-> Def(eps[i].name, eps[i].url, good \/ i < Len(eps))]

EndpointsOf(services) ==
  [i \in DOMAIN services |-> Endpoint(services[i].name, services[i].url)]

\* The service lists a configuration or a loader can produce.
ServiceLists ==
  {WithTypeDefs(EndpointsA, TRUE), WithTypeDefs(EndpointsAB, TRUE),
   WithTypeDefs(EndpointsAB, FALSE), WithTypeDefs(EndpointsNoUrl, TRUE)}

NoList == <<>>

Names(services) == {services[i].name : i \in DOMAIN services}

\* ------------------------------------------------------------ composition

\* The types of a schema composed from services: the root object type, one
\* entity type per service, an interface, a scalar and an introspection type.
EntityType(n) == IF n = "a" THEN "Product" ELSE "Review"
TypeNames(svcs) == {"Query", "Node", "String", "__Schema"} \cup {EntityType(n) : n \in svcs}
TypeKind(t) ==
  IF t = "String" THEN "scalar" ELSE IF t = "Node" THEN "interface" ELSE "object"
FieldNames(t) ==
  IF t = "String" THEN {}
  ELSE IF t = "Node" THEN {"id"}
  ELSE IF t = "__Schema" THEN {"types"}
  ELSE IF t = "Query" THEN {"me"}
  ELSE {"id", "name"}

\* A type as composition leaves it: no field has a resolver.
ComposedType(t) == [kind |-> TypeKind(t), fields |-> [f \in FieldNames(t) |-> "none"]]

\* A schema: the object's identity, the services it was composed from and its
\* type map.
SchemaOf(id, svcs) ==
  [id |-> id, svcs |-> svcs, types |-> [t \in TypeNames(svcs) |-> ComposedType(t)]]

NoSchema == [id |-> 0, svcs |-> {}, types |-> [t \in {} |-> ComposedType(t)]]

\* composeAndValidate(services): the composition errors (here the names of the
\* definitions that do not compose) and the composed schema's services.
composeAndValidate(services) ==
  [errors |-> {services[i].name : i \in {j \in DOMAIN services : ~services[j].ok}},
   svcs |-> Names(services)]

isObjectType(type) == type.kind = "object"
isIntrospectionType(typeName) == typeName = "__Schema"

\* wrapSchemaWithAliasResolver without the test for introspection types.
wrapSchemaAllObjectTypes(s) ==
  [s EXCEPT !.types =
     [t \in DOMAIN s.types |->
        IF isObjectType(s.types[t])
        THEN [s.types[t] EXCEPT !.fields =
                [f \in DOMAIN s.types[t].fields |-> "defaultFieldResolverWithAliasSupport"]]
        ELSE s.types[t]]]

\* wrapSchemaWithAliasResolver(schema): every field of every object type that
\* is not an introspection type gets defaultFieldResolverWithAliasSupport; the
\* schema object given is the one returned.
wrapSchemaWithAliasResolver(s) ==
  [s EXCEPT !.types =
     [t \in DOMAIN s.types |->
        IF isObjectType(s.types[t]) /\ ~isIntrospectionType(t)
        THEN [s.types[t] EXCEPT !.fields =
                [f \in DOMAIN s.types[t].fields |-> "defaultFieldResolverWithAliasSupport"]]
        ELSE s.types[t]]]

\* The data source built for a definition: new RemoteGraphQLDataSource({url}),
\* or config.buildService(serviceDef).
NoHandle == "absent"
DataSource(serviceDef) == serviceDef.url

EmptyServiceMap == [n \in ServiceNames |-> NoHandle]

\* createServices(services): the loop over the definitions, stopping at the
\* first definition without url when the configuration is not local.
RECURSIVE createServicesFrom(_, _, _, _)
createServicesFrom(map, services, i, isLocal) ==
  IF i > Len(services) THEN [serviceMap |-> map, threw |-> FALSE]
  ELSE IF services[i].url = "none" /\ ~isLocal
       THEN [serviceMap |-> map, threw |-> TRUE]
       ELSE createServicesFrom(
              [map EXCEPT ![services[i].name] = DataSource(services[i])],
              services, i + 1, isLocal)

\* createServices looking at every definition before it registers any.
createServicesAllOrNothing(map, services, isLocal) ==
  IF ~isLocal /\ \E i \in DOMAIN services : services[i].url = "none"
  THEN [serviceMap |-> map, threw |-> TRUE]
  ELSE createServicesFrom(map, services, 1, isLocal)

createServices(map, services, isLocal) ==
  createServicesFrom(map, services, 1, isLocal)

\* ---------------------------------------------------------------- planning

\* The operations a request can name: (document, operationName).  Document d1
\* holds two operations, document d2 one.
Operations == {<<"d1", "o1">>, <<"d1", "o2">>, <<"d2", "o1">>}

\* The two operations of document d1.
DocumentOperations == {<<"d1", "o1">>, <<"d1", "o2">>}

\* An operation selecting fields of both services with no dependency between
\* them, and the operation of d1 whose second fetch needs keys of the first.
ParallelOperation == <<"d3", "o1">>
SequenceOperation == <<"d1", "o2">>

\* The services owning the fields an operation selects, in dependency order.
Selection(doc, op) ==
  IF doc = "d1" /\ op = "o1" THEN <<"a">>
  ELSE IF doc = "d1" /\ op = "o2" THEN <<"a", "b">>
  ELSE IF doc = "d3" THEN <<"a", "b">>
  ELSE <<"b">>

\* Whether the fields selected from the second service need key fields
\* fetched from the first.
NeedsKeys(doc, op) == doc # "d3"

\* requestContext.queryHash: a stable hash of the document and operation name.
QueryHash(doc, op) == <<doc, op>>

\* buildOperationContext(this.schema!, document, request.operationName)
buildOperationContext(s, doc, op) == [schema |-> s, document |-> doc, operationName |-> op]

NoPlan == [kind |-> "none", fetches |-> <<>>]

\* buildQueryPlan(operationContext): one Fetch per owning service; several are
\* put in a Sequence when the later needs keys of the earlier, else in a
\* Parallel; planning fails when a selected field is owned by no service of
\* the schema.
PlanFails(oc) ==
  \E i \in DOMAIN Selection(oc.document, oc.operationName) :
    Selection(oc.document, oc.operationName)[i] \notin oc.schema.svcs

buildQueryPlan(oc) ==
  LET sel == Selection(oc.document, oc.operationName)
  IN [kind |-> IF Len(sel) = 1 THEN "Fetch"
               ELSE IF NeedsKeys(oc.document, oc.operationName) THEN "Sequence"
               ELSE "Parallel",
      fetches |-> sel]

\* --------------------------------------------------------------- plan cache

MiB == 2^20

\* A budget ten times as large.
MaxCacheSizeTenfold == MiB * 300

\* maxSize: Math.pow(2, 20) * 30
MaxCacheSize == MiB * 30

\* The serialized size of one Fetch node of the plans issued here.
FetchNodeBytes == MiB * 8

\* approximateObjectSize(obj): the byte length of the plan's JSON.
approximateObjectSize(plan) == FetchNodeBytes * Len(plan.fetches)

\* The store is a sequence of entries, least recently used first.  An entry
\* also records the schema of the operation context its plan was built from
\* and the schema that was active when its set() was called.
Entry(k, plan, built, active) ==
  [key |-> k, plan |-> plan, builtFor |-> built, storedUnder |-> active]

RECURSIVE TotalSize(_)
TotalSize(store) ==
  IF store = <<>> THEN 0
  ELSE approximateObjectSize(Head(store).plan) + TotalSize(Tail(store))

Without(store, k) == SelectSeq(store, LAMBDA e : e.key # k)

Has(store, k) == \E i \in DOMAIN store : store[i].key = k

Find(store, k) == store[CHOOSE i \in DOMAIN store : store[i].key = k]

\* get(key): the entry, which becomes the most recently used.
StoreAfterGet(store, k) ==
  IF Has(store, k) THEN Append(Without(store, k), Find(store, k)) ELSE store

RECURSIVE Trim(_)
Trim(store) ==
  IF store # <<>> /\ TotalSize(store) > MaxCacheSize THEN Trim(Tail(store)) ELSE store

\* set(key, value): the entry replaces the key's and is the most recently
\* used; least recently used entries are dropped while the budget is exceeded.
StoreAfterSet(store, e) == Trim(Append(Without(store, e.key), e))

\* The entries set(key, value) drops, least recently used first.
EvictedBySet(store, e) ==
  LET all == Append(Without(store, e.key), e)
  IN SubSeq(all, 1, Len(all) - Len(StoreAfterSet(store, e)))

\* ------------------------------------------------------------ configuration

\* The configurations a gateway is constructed with.  kind: "local" (a
\* localServiceList), "remote" (a serviceList of endpoints), "custom" (an
\* experimental_getServiceList) or "empty" (none of them).  expose is the
\* __exposeQueryPlanExperimental option: "absent", "undefined", "true", "false".
ConfigKinds == {"local", "remote", "custom", "empty"}
ExposeOptions == {"absent", "undefined", "true", "false"}
NodeEnvs == {"production", "development"}

ConfigLists(kind) ==
  IF kind = "local" THEN ServiceLists
  ELSE IF kind = "remote" THEN {WithTypeDefs(eps, TRUE) : eps \in EndpointLists}
  ELSE {NoList}

\* A configuration with all four observers given (f) or none of them; the
\* observers given return normally.
Config(k, l, e, f) ==
  [kind |-> k, list |-> l, expose |-> e, didFail |-> f, didResolve |-> f,
   didUpdateSchema |-> f, didUpdateServiceList |-> f, throws |-> FALSE]

\* The same configuration with observers that throw when they are called.
Throwing(c) == [c EXCEPT !.throws = TRUE]

\* Every kind of configuration, with and without observers.
GatewayConfigs ==
  {Config(k, l, "absent", f) :
     k \in ConfigKinds, l \in ServiceLists \cup {NoList}, f \in BOOLEAN}

\* Local and remote configurations with observers.
ExecConfigs ==
  {Config("local", WithTypeDefs(EndpointsAB, TRUE), "absent", TRUE),
   Config("local", WithTypeDefs(EndpointsA, TRUE), "absent", TRUE),
   Config("remote", WithTypeDefs(EndpointsA, TRUE), "absent", TRUE)}

\* One local configuration under every __exposeQueryPlanExperimental option.
ExposeConfigs ==
  {Config("local", WithTypeDefs(EndpointsAB, TRUE), e, TRUE) : e \in ExposeOptions}

ValidConfig(c) == c.list \in ConfigLists(c.kind)

\* isLocalConfig(config): 'localServiceList' in config
isLocalConfig(c) == c.kind = "local"

\* this.config = { __exposeQueryPlanExperimental: NODE_ENV !== 'production',
\* ...config }: a key present in config, even as undefined, overrides.
MergedExpose(c, env) ==
  IF c.expose = "absent" THEN env # "production" ELSE c.expose = "true"

NoConfig ==
  [kind |-> "empty", list |-> NoList, expose |-> FALSE, exposeGiven |-> FALSE,
   didFail |-> FALSE, didResolve |-> FALSE, didUpdateSchema |-> FALSE,
   didUpdateServiceList |-> FALSE, throws |-> FALSE]

MergedConfig(c, env) ==
  [kind |-> c.kind, list |-> c.list, expose |-> MergedExpose(c, env),
   exposeGiven |-> c.expose # "absent",
   didFail |-> c.didFail, didResolve |-> c.didResolve,
   didUpdateSchema |-> c.didUpdateSchema,
   didUpdateServiceList |-> c.didUpdateServiceList, throws |-> c.throws]

\* ------------------------------------------------------------------- state

VARIABLES
  nodeEnv,      \* process.env.NODE_ENV
  gw,           \* "new": not constructed, "live", "failed": the constructor threw
  config,       \* this.config
  schema,       \* this.schema
  isReady,      \* this.isReady
  serviceMap,   \* this.serviceMap
  store,        \* this.queryPlanStore
  didFailComposition,   \* this.experimental_didFailComposition is set
  didResolveQueryPlan,  \* this.experimental_didResolveQueryPlan is set
  didUpdateSchema,      \* this.experimental_didUpdateSchema is set
  didUpdateServiceList, \* this.experimental_didUpdateServiceList is set
  load,         \* the load() calls
  req,          \* the executor invocations
  write,        \* the plan-cache write each invocation started
  warned,       \* invocations for which 'Could not store queryPlan' was logged
  compFailures, \* service lists whose composition returned errors
  failReports,  \* service lists reported to experimental_didFailComposition
  schemaReport, \* what experimental_didUpdateSchema was last called with
  listReports,  \* service lists reported to experimental_didUpdateServiceList
  composedList, \* the service list of the last createSchema call that returned
  lastEvicted,  \* the entries the plan store's last set() dropped
  health        \* the backend services: "up", "partial" or "down"

vars == <<nodeEnv, gw, config, schema, isReady, serviceMap, store,
          didFailComposition, didResolveQueryPlan, didUpdateSchema,
          didUpdateServiceList, load, req, write, warned,
          compFailures, failReports, schemaReport, listReports, composedList,
          lastEvicted, health>>

gatewayVars == <<schema, isReady, serviceMap, compFailures, failReports,
                 schemaReport, listReports, composedList>>
setupVars == <<nodeEnv, gw, config, didFailComposition, didResolveQueryPlan,
               didUpdateSchema, didUpdateServiceList, health>>
execVars == <<store, req, write, warned, lastEvicted>>

\* ------------------------------------------------------------ createSchema

\* What experimental_didUpdateSchema is called with.
NoReport == [previous |-> NoSchema, current |-> NoSchema]
SchemaUpdate(previousSchema, currentSchema) ==
  [previous |-> previousSchema, current |-> currentSchema]

\* The observers createSchema may call: whether each is set on the gateway,
\* and whether the configured observers throw.
Observers ==
  [didFailComposition |-> didFailComposition, didUpdateSchema |-> didUpdateSchema,
   throws |-> config.throws]

\* createSchema when composition returned errors: the observer, if set, is
\* called, and what it throws replaces the GraphQLSchemaValidationError.
CompositionFailed(g, obs) ==
  [schema |-> g.schema, isReady |-> g.isReady, serviceMap |-> g.serviceMap,
   threw |-> IF obs.didFailComposition /\ obs.throws THEN "didFailComposition"
             ELSE "validation",
   reported |-> obs.didFailComposition, seen |-> NoReport, composed |-> FALSE]

\* createSchema assigning this.schema before it looks at the errors.
createSchemaAssignsFirst(g, services, isLocal, obs) ==
  LET c == composeAndValidate(services)
      s == wrapSchemaWithAliasResolver(SchemaOf(g.schema.id + 1, c.svcs))
      cs == createServices(g.serviceMap, services, isLocal)
  IN IF c.errors # {}
     THEN [CompositionFailed(g, obs) EXCEPT !.schema = s]
     ELSE [schema |-> s, isReady |-> IF cs.threw THEN g.isReady ELSE TRUE,
           serviceMap |-> cs.serviceMap,
           threw |-> IF cs.threw THEN "missingUrl" ELSE "none", reported |-> FALSE,
           seen |-> IF obs.didUpdateSchema THEN SchemaUpdate(g.schema, s) ELSE NoReport,
           composed |-> ~cs.threw]

\* createSchema swallowing what its observers throw.
createSchemaCatchesObservers(g, services, isLocal, obs) ==
  LET c == composeAndValidate(services)
      s == wrapSchemaWithAliasResolver(SchemaOf(g.schema.id + 1, c.svcs))
      cs == createServices(g.serviceMap, services, isLocal)
  IN IF c.errors # {}
     THEN [CompositionFailed(g, obs) EXCEPT !.threw = "validation"]
     ELSE [schema |-> s, isReady |-> IF cs.threw THEN g.isReady ELSE TRUE,
           serviceMap |-> cs.serviceMap,
           threw |-> IF cs.threw THEN "missingUrl" ELSE "none", reported |-> FALSE,
           seen |-> IF obs.didUpdateSchema THEN SchemaUpdate(g.schema, s) ELSE NoReport,
           composed |-> ~cs.threw]

\* createSchema(services) on the gateway fields g with the observers obs: the
\* fields afterwards, what was thrown ("none", "validation", "missingUrl", or
\* the observer that threw), whether the composition failure observer was
\* called, what the schema update observer was called with, and whether the
\* call returned.  The composition's schema is wrapped, assigned and shown to
\* the observer; then the services are registered and isReady is set.
createSchema(g, services, isLocal, obs) ==
  LET c == composeAndValidate(services)
      s == wrapSchemaWithAliasResolver(SchemaOf(g.schema.id + 1, c.svcs))
      cs == createServices(g.serviceMap, services, isLocal)
  IN IF c.errors # {}
     THEN CompositionFailed(g, obs)
     ELSE IF obs.didUpdateSchema /\ obs.throws
     THEN [schema |-> s, isReady |-> g.isReady, serviceMap |-> g.serviceMap,
           threw |-> "didUpdateSchema", reported |-> FALSE,
           seen |-> SchemaUpdate(g.schema, s), composed |-> FALSE]
     ELSE [schema |-> s, isReady |-> IF cs.threw THEN g.isReady ELSE TRUE,
           serviceMap |-> cs.serviceMap,
           threw |-> IF cs.threw THEN "missingUrl" ELSE "none", reported |-> FALSE,
           seen |-> IF obs.didUpdateSchema THEN SchemaUpdate(g.schema, s) ELSE NoReport,
           composed |-> ~cs.threw]

Fields == [schema |-> schema, isReady |-> isReady, serviceMap |-> serviceMap]

\* The gateway fields and the records of what was observed after a
\* createSchema(services) call with result res.  No code calls
\* experimental_didUpdateServiceList.
Adopt(res, services) ==
  /\ schema' = res.schema
  /\ isReady' = res.isReady
  /\ serviceMap' = res.serviceMap
  /\ compFailures' = IF res.threw \in {"validation", "didFailComposition"}
                     THEN compFailures \cup {services}
                     ELSE compFailures
  /\ failReports' = IF res.reported THEN failReports \cup {services} ELSE failReports
  /\ schemaReport' = IF res.seen # NoReport THEN res.seen ELSE schemaReport
  /\ composedList' = IF res.composed THEN services ELSE composedList
  /\ listReports' = listReports

\* -------------------------------------------------------------- constructor

\* A load() call: where it is, the services it has loaded, and what it threw
\* ("none", "config", "loader", or what its createSchema call threw).
LoadAt(pc, services, error) == [pc |-> pc, services |-> services, error |-> error]
IdleLoad == LoadAt("idle", NoList, "none")

\* A load() call after its createSchema call with result res.
Composed(res) ==
  LoadAt(IF res.threw = "none" THEN "done" ELSE "threw", NoList, res.threw)

NoOC == buildOperationContext(NoSchema, "", "")
NoEntry == Entry(<<"", "">>, NoPlan, NoSchema, NoSchema)
NoExtensions == <<>>

\* A write of the plan store: "none", "pending", "stored" or "failed", and
\* while it is pending the entry being written.
NoWrite == [status |-> "none", entry |-> NoEntry]

\* An executor invocation: where it is, its inputs, the plan it executes,
\* the handles of the fetches dispatched so far (used) with the entity
\* representations each sent (sent), the fetches awaited (inflight), the
\* response: the paths with data, the entity keys in the data, the paths with
\* an error entry, the extensions; and what the invocation threw.
IdleReq ==
  [pc |-> "idle", queryHash |-> <<"", "">>, oc |-> NoOC, got |-> NoEntry,
   plan |-> NoPlan, mapAtStart |-> EmptyServiceMap, used |-> <<>>, sent |-> <<>>,
   inflight |-> {}, data |-> {}, keys |-> {},
   errors |-> {}, header |-> "nohttp", extensions |-> NoExtensions,
   resolved |-> FALSE, error |-> "none"]

Init ==
  /\ nodeEnv \in NodeEnvs
  /\ gw = "new"
  /\ config = NoConfig
  /\ schema = NoSchema
  /\ isReady = FALSE
  /\ serviceMap = EmptyServiceMap
  /\ store = <<>>
  /\ didFailComposition = FALSE
  /\ didResolveQueryPlan = FALSE
  /\ load = [l \in Loads |-> IdleLoad]
  /\ req = [r \in Reqs |-> IdleReq]
  /\ write = [r \in Reqs |-> NoWrite]
  /\ warned = {}
  /\ compFailures = {}
  /\ failReports = {}
  /\ didUpdateSchema = FALSE
  /\ didUpdateServiceList = FALSE
  /\ schemaReport = NoReport
  /\ listReports = {}
  /\ composedList = NoList
  /\ lastEvicted = <<>>
  /\ health = [n \in ServiceNames |-> "up"]

\* The state after construction in a process whose NODE_ENV is given.
InitIn(env) == Init /\ nodeEnv = env

\* new ApolloGateway(c): the configuration is merged, a local service list is
\* composed with the observers not yet assigned, then the plan store is
\* created and the observers are assigned.
Constructor(c) ==
  /\ gw = "new"
  /\ ValidConfig(c)
  /\ config' = MergedConfig(c, nodeEnv)
  /\ LET res == IF isLocalConfig(c)
                THEN createSchema(Fields, c.list, TRUE, Observers)
                ELSE [schema |-> schema, isReady |-> isReady,
                      serviceMap |-> serviceMap, threw |-> "none", reported |-> FALSE,
                      seen |-> NoReport, composed |-> FALSE]
     IN /\ Adopt(res, c.list)
        /\ gw' = IF res.threw = "none" THEN "live" ELSE "failed"
        /\ didFailComposition' = IF res.threw = "none" THEN c.didFail ELSE didFailComposition
        /\ didResolveQueryPlan' = IF res.threw = "none" THEN c.didResolve
                                  ELSE didResolveQueryPlan
        /\ didUpdateSchema' = IF res.threw = "none" THEN c.didUpdateSchema
                              ELSE didUpdateSchema
        /\ didUpdateServiceList' = IF res.threw = "none" THEN c.didUpdateServiceList
                                   ELSE didUpdateServiceList
  /\ UNCHANGED <<nodeEnv, health, load, execVars>>

\* ------------------------------------------------------------------- load()

\* Calls start in the order of their numbers.
MayStartLoad(l) ==
  load[l].pc = "idle" /\ (IF l = 1 THEN TRUE ELSE load[l - 1].pc # "idle")

\* load() up to its await.  A ready gateway returns at once; otherwise the
\* service list is awaited: from experimental_getServiceList, or from
\* loadServiceDefinitions, which returns a local list, throws without a
\* serviceList, or awaits the remote endpoints.
LoadStart(l) ==
  /\ gw = "live"
  /\ MayStartLoad(l)
  /\ load' = [load EXCEPT ![l] =
       IF isReady THEN LoadAt("done", NoList, "none")
       ELSE IF config.kind = "custom" THEN LoadAt("loading", NoList, "none")
       ELSE IF isLocalConfig(config) THEN LoadAt("loaded", config.list, "none")
       ELSE IF config.kind = "empty" THEN LoadAt("threw", NoList, "config")
       ELSE LoadAt("loading", NoList, "none")]
  /\ UNCHANGED <<setupVars, gatewayVars, execVars>>

\* experimental_getServiceList resolves with a list: createSchema(services).
LoadCustomResolved(l) ==
  /\ load[l].pc = "loading"
  /\ config.kind = "custom"
  /\ \E services \in ServiceLists :
       LET res == createSchema(Fields, services, isLocalConfig(config), Observers)
       IN /\ Adopt(res, services)
          /\ load' = [load EXCEPT ![l] = Composed(res)]
  /\ UNCHANGED <<setupVars, execVars>>

\* getServiceDefinitionsFromRemoteEndpoint resolves with the definitions of
\* config.serviceList: loadServiceDefinitions registers them (createServices)
\* and returns them.
LoadRemoteResolved(l) ==
  /\ load[l].pc = "loading"
  /\ config.kind = "remote"
  /\ \E good \in BOOLEAN :
       LET remoteServices == WithTypeDefs(EndpointsOf(config.list), good)
           cs == createServices(serviceMap, remoteServices, isLocalConfig(config))
       IN /\ serviceMap' = cs.serviceMap
          /\ load' = [load EXCEPT ![l] =
               IF cs.threw THEN LoadAt("threw", NoList, "missingUrl")
               ELSE LoadAt("loaded", remoteServices, "none")]
  /\ UNCHANGED <<setupVars, schema, isReady, compFailures, failReports,
                 schemaReport, listReports, composedList, execVars>>

\* The awaited loader rejects: load() throws.
LoadRejected(l) ==
  /\ load[l].pc = "loading"
  /\ load' = [load EXCEPT ![l] = LoadAt("threw", NoList, "loader")]
  /\ UNCHANGED <<setupVars, gatewayVars, execVars>>

\* loadServiceDefinitions has returned: createSchema(services).
LoadCompose(l) ==
  /\ load[l].pc = "loaded"
  /\ LET services == load[l].services
         res == createSchema(Fields, services, isLocalConfig(config), Observers)
     IN /\ Adopt(res, services)
        /\ load' = [load EXCEPT ![l] = Composed(res)]
  /\ UNCHANGED <<setupVars, execVars>>

\* ----------------------------------------------------------------- executor

\* The request's http part: none, no Apollo-Query-Plan-Experimental header,
\* the header with an empty value, the header with a value.
Headers == {"nohttp", "absent", "empty", "set"}

\* A lookup keyed by the document alone.
LookupKeyDocumentOnly(q) == <<q.queryHash[1], "o1">>

\* The key of this.queryPlanStore.get(queryHash)
LookupKey(q) == q.queryHash

\* The key of this.queryPlanStore.set(queryHash, queryPlan)
StoreKey(q) == q.queryHash

\* The executor going on with whatever the lookup returned.
ResolvedPlanNoFallback(q) == q.got.plan

\* The plan the executor goes on with: the one the lookup returned, else the
\* one buildQueryPlan builds from the invocation's operation context.
ResolvedPlan(q) == IF q.got # NoEntry THEN q.got.plan ELSE buildQueryPlan(q.oc)

\* serializeQueryPlan(queryPlan)
serializeQueryPlan(plan) == <<"QueryPlan", plan.kind, plan.fetches>>

\* shouldShowQueryPlan testing the header's presence instead of its value.
shouldShowQueryPlanAnyValue(cfg, header) == cfg.expose /\ header \in {"set", "empty"}

\* shouldShowQueryPlan
shouldShowQueryPlan(cfg, header) == cfg.expose /\ header = "set"

\* response.extensions on return
ExtensionsOnReturn(cfg, header, plan) ==
  IF shouldShowQueryPlan(cfg, header)
  THEN [__queryPlanExperimental |-> serializeQueryPlan(plan)]
  ELSE NoExtensions

\* An invocation takes the first record that is free.
MayStartReq(r) ==
  req[r].pc = "idle" /\ \A p \in Reqs : p < r => req[p].pc # "idle"

\* The executor up to its first await: the operation context is built from
\* this.schema and the plan store is asked for queryHash.
ExecStart(r, o) ==
  /\ gw = "live"
  /\ schema # NoSchema
  /\ MayStartReq(r)
  /\ LET q == [IdleReq EXCEPT !.queryHash = QueryHash(o[1], o[2]),
                                !.oc = buildOperationContext(schema, o[1], o[2])]
           k == LookupKey(q)
     IN /\ req' = [req EXCEPT ![r] =
             [q EXCEPT !.pc = "get",
                       !.got = IF Has(store, k) THEN Find(store, k) ELSE NoEntry,
                       !.mapAtStart = serviceMap]]
        /\ store' = StoreAfterGet(store, k)
  /\ UNCHANGED <<setupVars, gatewayVars, load, write, warned, lastEvicted>>

\* The entity keys a service returns: all of them, or only the first when it
\* answers in part.
EntityKeys == {"k1", "k2"}
ReturnedKeys(h) == IF h = "up" THEN EntityKeys ELSE IF h = "partial" THEN {"k1"} ELSE {}

\* The entity representations a Fetch sends: the keys the response holds when
\* it is dispatched, for a Fetch of a Sequence that follows another.
Representations(q, i) == IF q.plan.kind = "Sequence" /\ i > 1 THEN q.keys ELSE {}

\* A Sequence dispatching its second Fetch with every key there is, whatever
\* the response holds.
DispatchAllKeys(q, map) ==
  IF Len(q.used) >= Len(q.plan.fetches) THEN q
  ELSE LET i == Len(q.used) + 1
           svc == q.plan.fetches[i]
       IN [q EXCEPT !.used = Append(@, map[svc]),
                    !.sent = Append(@, IF i > 1 THEN EntityKeys ELSE {}),
                    !.inflight = @ \cup {i},
                    !.errors = IF map[svc] = NoHandle THEN @ \cup {svc} ELSE @]

\* executeQueryPlan dispatches the plan's next Fetch, if any: the service's handle is
\* read from the service map it was given (this.serviceMap, the shared
\* object); a service without handle is collected in the errors.
Dispatch(q, map) ==
  IF Len(q.used) >= Len(q.plan.fetches) THEN q
  ELSE LET i == Len(q.used) + 1
           svc == q.plan.fetches[i]
       IN [q EXCEPT !.used = Append(@, map[svc]),
                    !.sent = Append(@, Representations(q, i)),
                    !.inflight = @ \cup {i},
                    !.errors = IF map[svc] = NoHandle THEN @ \cup {svc} ELSE @]

\* A Parallel dispatches all its children at once.
RECURSIVE DispatchAll(_, _)
DispatchAll(q, map) ==
  IF Len(q.used) >= Len(q.plan.fetches) THEN q ELSE DispatchAll(Dispatch(q, map), map)

\* A failed Fetch cancelling its siblings.
CompleteCancelling(q, i, h) ==
  LET svc == q.plan.fetches[i]
  IN IF svc \in q.errors THEN [q EXCEPT !.inflight = @ \ {i}]
     ELSE IF h[svc] = "down"
     THEN [q EXCEPT !.inflight = {}, !.errors = @ \cup {svc}, !.data = {}]
     ELSE [q EXCEPT !.inflight = @ \ {i}, !.data = @ \cup {svc},
                    !.keys = IF i = 1 THEN ReturnedKeys(h[svc]) ELSE @]

\* Fetch i returns, the services being as h says: a failure leaves an error
\* entry at the Fetch's path, a result is merged into the response, the first
\* Fetch's with the entity keys it holds.
Complete(q, i, h) ==
  LET svc == q.plan.fetches[i]
  IN IF svc \in q.errors THEN [q EXCEPT !.inflight = @ \ {i}]
     ELSE IF h[svc] = "down"
     THEN [q EXCEPT !.inflight = @ \ {i}, !.errors = @ \cup {svc}]
     ELSE [q EXCEPT !.inflight = @ \ {i}, !.data = @ \cup {svc},
                    !.keys = IF i = 1 THEN ReturnedKeys(h[svc]) ELSE @]

\* The plan's root node has completed: nothing is awaited or left to dispatch.
Completed(q) == q.inflight = {} /\ Len(q.used) = Len(q.plan.fetches)

\* executeQueryPlan(queryPlan, this.serviceMap, requestContext,
\* operationContext) up to its first await: the first Fetch is dispatched, or
\* all children of a Parallel.
CallExecute(q, plan, map) ==
  LET called == [q EXCEPT !.pc = "exec", !.plan = plan]
  IN IF plan.kind = "Parallel" THEN DispatchAll(called, map) ELSE Dispatch(called, map)

\* The lookup returned a plan: executeQueryPlan is called with it.
ExecHit(r) ==
  /\ req[r].pc = "get"
  /\ req[r].got # NoEntry
  /\ req' = [req EXCEPT ![r] = CallExecute(@, ResolvedPlan(@), serviceMap)]
  /\ UNCHANGED <<setupVars, gatewayVars, load, store, write, warned, lastEvicted>>

\* The lookup returned nothing: the plan is built, its write to the store is
\* started and not awaited, and executeQueryPlan is called.
ExecMiss(r) ==
  /\ req[r].pc = "get"
  /\ req[r].got = NoEntry
  /\ ~PlanFails(req[r].oc)
  /\ req' = [req EXCEPT ![r] = CallExecute(@, ResolvedPlan(@), serviceMap)]
  /\ write' = [write EXCEPT ![r] =
       [status |-> "pending",
        entry |-> Entry(StoreKey(req[r]), ResolvedPlan(req[r]), req[r].oc.schema,
                        schema)]]
  /\ UNCHANGED <<setupVars, gatewayVars, load, store, warned, lastEvicted>>

\* A planning error answered with a response instead of a rejection.
RejectedWithResponse(q, error) ==
  [IdleReq EXCEPT !.pc = "done", !.error = error, !.queryHash = q.queryHash]

\* What is left of an invocation when buildQueryPlan throws: the error, and
\* nothing else.
Rejected(q, error) ==
  [IdleReq EXCEPT !.pc = "failed", !.error = error, !.queryHash = q.queryHash]

\* The lookup returned nothing and buildQueryPlan throws: the executor rejects.
ExecPlanError(r) ==
  /\ req[r].pc = "get"
  /\ req[r].got = NoEntry
  /\ PlanFails(req[r].oc)
  /\ req' = [req EXCEPT ![r] = Rejected(@, "planning")]
  /\ UNCHANGED <<setupVars, gatewayVars, load, store, write, warned, lastEvicted>>

\* A Fetch has returned and the plan's root node has not completed: a
\* sibling is awaited, or the Sequence dispatches its next Fetch.
ExecFetch(r) ==
  /\ req[r].pc = "exec"
  /\ \E i \in req[r].inflight :
       LET q == Complete(req[r], i, health)
       IN /\ ~Completed(q)
          /\ req' = [req EXCEPT ![r] =
               IF q.plan.kind = "Sequence" THEN Dispatch(q, serviceMap) ELSE q]
  /\ UNCHANGED <<setupVars, gatewayVars, load, store, write, warned, lastEvicted>>

\* What is left of an invocation once executeQueryPlan has returned.  The plan
\* observer, if set, is called; if it throws the invocation is rejected with
\* what it threw.  Otherwise the response is returned: the data and errors
\* collected and the extensions; the record keeps the plan executed, the
\* header carried and whether the plan observer was called.
Returned(q, h, cfg, observerSet) ==
  IF observerSet /\ cfg.throws
  THEN [IdleReq EXCEPT !.pc = "failed", !.error = "didResolveQueryPlan",
                       !.queryHash = q.queryHash, !.resolved = TRUE]
  ELSE [IdleReq EXCEPT !.pc = "done", !.queryHash = q.queryHash, !.plan = q.plan,
                       !.data = q.data, !.errors = q.errors, !.header = h,
                       !.resolved = observerSet,
                       !.extensions = ExtensionsOnReturn(cfg, h, q.plan)]

\* The last Fetch awaited and with it executeQueryPlan has returned: the plan
\* observer is called, the query plan is put in the extensions when asked
\* for, and the response is returned.
ExecFinish(r, h) ==
  /\ req[r].pc = "exec"
  /\ \E i \in req[r].inflight :
       LET q == Complete(req[r], i, health)
       IN /\ Completed(q)
          /\ req' = [req EXCEPT ![r] = Returned(q, h, config, didResolveQueryPlan)]
  /\ UNCHANGED <<setupVars, gatewayVars, load, store, write, warned, lastEvicted>>

\* The serving layer discards a finished invocation with its response.
ExecForget(r) ==
  /\ req[r].pc \in {"done", "failed"}
  /\ write[r].status # "pending"
  /\ req' = [req EXCEPT ![r] = IdleReq]
  /\ write' = [write EXCEPT ![r] = NoWrite]
  /\ UNCHANGED <<setupVars, gatewayVars, load, store, warned, lastEvicted>>

\* A backend service changes: it answers, answers in part, or fails.
ServiceChanges(n, h) ==
  /\ health[n] # h
  /\ health' = [health EXCEPT ![n] = h]
  /\ UNCHANGED <<nodeEnv, gw, config, didFailComposition, didResolveQueryPlan,
                 didUpdateSchema, didUpdateServiceList, gatewayVars, load, execVars>>

\* The pending write of an invocation's plan succeeds.
WriteStored(r) ==
  /\ write[r].status = "pending"
  /\ store' = StoreAfterSet(store, write[r].entry)
  /\ lastEvicted' = EvictedBySet(store, write[r].entry)
  /\ write' = [write EXCEPT ![r] = [status |-> "stored", entry |-> NoEntry]]
  /\ UNCHANGED <<setupVars, gatewayVars, load, req, warned>>

\* A rejection of the write that is not caught and fails the invocation.
OnWriteRejectedUncaught(q) == Rejected(q, "cache")

\* What the rejection of a write does to the invocation: nothing, the catch
\* handler only logs.
OnWriteRejected(q) == q

\* The pending write of an invocation's plan fails: a warning is logged.
WriteFailed(r) ==
  /\ write[r].status = "pending"
  /\ write' = [write EXCEPT ![r] = [status |-> "failed", entry |-> NoEntry]]
  /\ warned' = warned \cup {r}
  /\ req' = [req EXCEPT ![r] = OnWriteRejected(@)]
  /\ UNCHANGED <<setupVars, gatewayVars, load, store, lastEvicted>>

\* ------------------------------------------------------------ specification

Construct(configs) == \E c \in configs : Constructor(c)

\* load() with the default loader.
LoadSteps ==
  \/ \E l \in Loads : LoadStart(l)
  \/ \E l \in Loads : LoadRemoteResolved(l)
  \/ \E l \in Loads : LoadRejected(l)
  \/ \E l \in Loads : LoadCompose(l)

\* load() with an experimental_getServiceList.
CustomLoadSteps == \E l \in Loads : LoadCustomResolved(l)

\* The executor up to the call of executeQueryPlan.
PlanSteps(operations) ==
  \/ \E r \in Reqs, o \in operations : ExecStart(r, o)
  \/ \E r \in Reqs : ExecHit(r)
  \/ \E r \in Reqs : ExecMiss(r)
  \/ \E r \in Reqs : WriteStored(r)
  \/ \E r \in Reqs : WriteFailed(r)

\* The execution of the plan and the executor's return.
RunSteps(headers) ==
  \/ \E r \in Reqs : ExecFetch(r)
  \/ \E r \in Reqs, h \in headers : ExecFinish(r, h)

PlanErrorSteps == \E r \in Reqs : ExecPlanError(r)

\* The gateway under every kind of configuration.
Next ==
  \/ Construct(GatewayConfigs)
  \/ LoadSteps
  \/ CustomLoadSteps
  \/ PlanSteps(Operations)
  \/ PlanErrorSteps
  \/ RunSteps({"absent", "set"})

Spec == Init /\ [][Next]_vars

\* Construction and load() alone.
NextCompose == Construct(GatewayConfigs) \/ LoadSteps \/ CustomLoadSteps

SpecCompose == Init /\ [][NextCompose]_vars

\* The executor on gateways with a local or a remote service list.
NextExec ==
  \/ Construct(ExecConfigs)
  \/ LoadSteps
  \/ PlanSteps(DocumentOperations)
  \/ PlanErrorSteps
  \/ RunSteps({"set"})

InitExec == InitIn("development")

SpecExec == InitExec /\ [][NextExec]_vars

\* The executor's query plan exposure: every option and every header, on a
\* gateway that its constructor made ready.
NextExpose ==
  \/ Construct(ExposeConfigs)
  \/ PlanSteps(DocumentOperations)
  \/ RunSteps(Headers)

SpecExpose == Init /\ [][NextExpose]_vars

\* The plan store under any sequence of lookups and writes: invocations on a
\* ready gateway, each discarded once it has returned.
CacheConfigs == {Config("local", WithTypeDefs(EndpointsAB, TRUE), "absent", FALSE)}

NextCache ==
  \/ Construct(CacheConfigs)
  \/ \E r \in Reqs, o \in Operations : ExecStart(r, o)
  \/ \E r \in Reqs : ExecHit(r)
  \/ \E r \in Reqs : ExecMiss(r)
  \/ \E r \in Reqs : WriteStored(r)
  \/ RunSteps({"absent"})
  \/ \E r \in Reqs : ExecForget(r)

InitCache == InitIn("production")

SpecCache == InitCache /\ [][NextCache]_vars

\* The execution of Sequence and Parallel plans against backends that answer,
\* answer in part or fail.  Every plan is built: the writes to the plan store
\* stay pending, the store plays no part in a plan's execution.
FetchConfigs == {Config("local", WithTypeDefs(EndpointsAB, TRUE), "absent", FALSE)}
\* What a service can turn to: a answers, answers in part or fails; b, which
\* returns no entity keys, answers or fails.
HealthStates(n) == IF n = "a" THEN {"up", "partial", "down"} ELSE {"up", "down"}

NextFetch ==
  \/ Construct(FetchConfigs)
  \/ \E r \in Reqs, o \in {SequenceOperation, ParallelOperation} : ExecStart(r, o)
  \/ \E r \in Reqs : ExecMiss(r)
  \/ RunSteps({"absent"})
  \/ \E n \in ServiceNames : \E h \in HealthStates(n) : ServiceChanges(n, h)

InitFetch == InitIn("production")

SpecFetch == InitFetch /\ [][NextFetch]_vars

\* Gateways whose observers throw: one that composes in load(), one that
\* composes in its constructor.
ObserveConfigs ==
  {Throwing(Config("remote", WithTypeDefs(EndpointsA, TRUE), "absent", TRUE)),
   Throwing(Config("local", WithTypeDefs(EndpointsAB, TRUE), "absent", TRUE))}

NextObserve ==
  \/ Construct(ObserveConfigs)
  \/ LoadSteps
  \/ PlanSteps({<<"d1", "o1">>})
  \/ \E r \in Reqs : ExecFinish(r, "set")

InitObserve == InitIn("development")

SpecObserve == InitObserve /\ [][NextObserve]_vars

\* ------------------------------------------------------------------- claims

C2_StalePlanNeverServed ==
  \A r \in Reqs :
    (req[r].pc = "get" /\ req[r].got # NoEntry)
      => req[r].got.storedUnder.id >= req[r].oc.schema.id

\* C3: every handle an invocation's plan execution uses is the one the
\* service map held for that service when the invocation started.
C3_InFlightKeepsSnapshot ==
  \A r \in Reqs :
    req[r].pc = "exec"
      => \A i \in DOMAIN req[r].used :
           req[r].used[i] = req[r].mapAtStart[req[r].plan.fetches[i]]

\* C4: the completion of a plan-cache write, stored or failed, changes no
\* invocation's state, response or outcome; a failed write is logged.
C4_WriteOutcomeInvisible ==
  [][\A r \in Reqs :
       (write[r].status = "pending" /\ write'[r].status # "pending")
         => /\ req' = req
            /\ write'[r].status = "failed" => r \in warned'
    ]_vars

\* An invocation has returned its response though its write failed, and
\* another one executes or has returned while its write is still pending.
C4_Witness ==
  \E r, p \in Reqs :
    /\ req[r].pc = "done" /\ write[r].status = "failed"
    /\ req[p].pc \in {"exec", "done"} /\ write[p].status = "pending"

\* C5: an invocation that executes a plan has one; when its lookup returned
\* nothing the plan is the one buildQueryPlan builds from its own operation
\* context, and its write to the store was started.
C5_MissFallsBackToPlanning ==
  \A r \in Reqs :
    req[r].pc = "exec"
      => /\ req[r].plan # NoPlan
         /\ req[r].got = NoEntry
              => /\ req[r].plan = buildQueryPlan(req[r].oc)
                 /\ write[r].status # "none"

\* An invocation plans again under the queryHash of an earlier invocation
\* whose write failed.
C5_Witness ==
  \E r, p \in Reqs :
    /\ r < p
    /\ write[r].status = "failed"
    /\ req[p].queryHash = req[r].queryHash
    /\ req[p].pc = "exec" /\ req[p].got = NoEntry

\* C6: an invocation whose plan comes from the cache, built for the schema
\* the invocation observes, executes the plan buildQueryPlan would build from
\* its own operation context.
C6_HitEqualsFreshPlan ==
  \A r \in Reqs :
    (req[r].pc = "exec" /\ req[r].got # NoEntry /\ req[r].got.builtFor = req[r].oc.schema)
      => /\ ~PlanFails(req[r].oc)
         /\ req[r].plan = buildQueryPlan(req[r].oc)

\* An invocation executes a cached plan for a document that holds another
\* operation as well.
C6_Witness ==
  \E r \in Reqs :
    /\ req[r].pc = "exec" /\ req[r].got # NoEntry
    /\ req[r].got.builtFor = req[r].oc.schema
    /\ req[r].oc.document = "d1"

\* C7: a step changes the service map only if it is a successful composition:
\* a load() that completes, or a constructor that returns.
C7_MapChangesOnlyOnComposition ==
  [][serviceMap' # serviceMap
       => \/ \E l \in Loads : load[l].pc # "done" /\ load'[l].pc = "done"
          \/ gw = "new" /\ gw' = "live"
    ]_vars

\* C8: with experimental_didFailComposition configured, every service list
\* whose composition threw was reported to it.
C8_FailuresReported == config.didFail => compFailures \subseteq failReports

\* C9: a returned response carries the serialized plan in its extensions
\* exactly when the flag is enabled and the header has a non-empty value, and
\* otherwise the extensions are as executeQueryPlan left them; a flag that the
\* configuration does not give is enabled exactly outside production.
C9_PlanExposedIffAsked ==
  /\ \A r \in Reqs :
       req[r].pc = "done"
         => req[r].extensions =
              IF config.expose /\ req[r].header = "set"
              THEN [__queryPlanExperimental |-> serializeQueryPlan(req[r].plan)]
              ELSE NoExtensions
  /\ (gw # "new" /\ ~config.exposeGiven) => (config.expose <=> nodeEnv # "production")

\* A response carries the plan under the default flag, and another, whose
\* header is empty, does not.
C9_Witness ==
  \E r, p \in Reqs :
    /\ ~config.exposeGiven
    /\ req[r].pc = "done" /\ req[r].header = "set" /\ req[r].extensions # NoExtensions
    /\ req[p].pc = "done" /\ req[p].header = "empty" /\ req[p].extensions = NoExtensions

\* C10: an invocation whose planning failed is rejected: no write was
\* started, no Fetch was dispatched, the plan observer was not called and
\* there is no response.
C10_PlanningErrorFailsRequest ==
  \A r \in Reqs :
    req[r].error = "planning"
      => /\ req[r].pc = "failed"
         /\ write[r].status = "none"
         /\ req[r].used = <<>>
         /\ req[r].plan = NoPlan
         /\ ~req[r].resolved
         /\ req[r].extensions = NoExtensions

\* An invocation is rejected by a planning error on a gateway with a plan
\* observer.
C10_Witness ==
  \E r \in Reqs : req[r].pc = "failed" /\ req[r].error = "planning" /\ didResolveQueryPlan

\* C11: once no load() is pending, a gateway with an
\* experimental_didUpdateServiceList observer has reported to it the service
\* list its last createSchema call adopted.
C11_ServiceListUpdateObserved ==
  (/\ didUpdateServiceList
   /\ composedList # NoList
   /\ \A l \in Loads : load[l].pc \notin {"loading", "loaded"})
    => composedList \in listReports

\* C12: after every step the stored plans' sizes sum to at most 30 * 2^20
\* bytes and no two entries share a queryHash; a lookup that hits makes its
\* entry the most recently used and leaves the others in order; a write drops
\* exactly the least recently used entries, as few as bring the sum within the
\* budget.
C12_BudgetAndLeastRecentlyUsed ==
  [][/\ TotalSize(store') <= 30 * 2^20
     /\ \A i, j \in DOMAIN store' : store'[i].key = store'[j].key => i = j
     /\ \A r \in Reqs :
          (req[r].pc = "idle" /\ req'[r].pc = "get" /\ Has(store, req'[r].queryHash))
            => /\ store'[Len(store')].key = req'[r].queryHash
               /\ Len(store') = Len(store)
               /\ Without(store', req'[r].queryHash) = Without(store, req'[r].queryHash)
     /\ \A r \in Reqs :
          (write[r].status = "pending" /\ write'[r].status = "stored")
            => LET e == write[r].entry
                   all == Append(Without(store, e.key), e)
               IN \E n \in 0..Len(all) :
                    /\ lastEvicted' = SubSeq(all, 1, n)
                    /\ store' = SubSeq(all, n + 1, Len(all))
                    /\ n > 0 => TotalSize(SubSeq(all, n, Len(all))) > 30 * 2^20
    ]_vars

\* A write has dropped the least recently used entry and kept another one
\* beside the entry written.
C12_Witness == Len(lastEvicted) = 1 /\ Len(store) = 2

\* C13: while the first Fetch of a Sequence is awaited the second has not
\* been dispatched; once the second is dispatched the first has completed, its
\* result or its error is in the response, and the representations the second
\* sent are the entity keys the response holds.
C13_SecondFetchAfterFirst ==
  \A r \in Reqs :
    (req[r].pc = "exec" /\ req[r].plan.kind = "Sequence")
      => /\ 1 \in req[r].inflight => Len(req[r].used) = 1
         /\ Len(req[r].used) = 2
              => /\ 1 \notin req[r].inflight
                 /\ req[r].plan.fetches[1] \in req[r].data \cup req[r].errors
                 /\ req[r].sent[2] \subseteq req[r].keys
                 /\ req[r].plan.fetches[1] \notin req[r].data => req[r].sent[2] = {}

\* The second Fetch of a Sequence is awaited, sent with the one key that the
\* first, answered in part, brought.
C13_Witness ==
  \E r \in Reqs :
    /\ req[r].pc = "exec" /\ req[r].plan.kind = "Sequence"
    /\ 2 \in req[r].inflight
    /\ req[r].sent[2] = {"k1"}

\* C14: an invocation executing a Parallel returns only when each child has
\* left data or an error entry at its path, never both; the return of a child
\* puts an error entry at its path when its service failed and its data when
\* it answered, and leaves the sibling's data and error entry as they were;
\* the invocation is not rejected.
C14_ParallelFailureIsolated ==
  [][\A r \in Reqs :
       req[r].plan.kind = "Parallel"
         => /\ req'[r].pc \in {"exec", "done"}
            /\ req'[r].pc = "done"
                 => /\ req'[r].data \cup req'[r].errors = Names(config.list)
                    /\ req'[r].data \cap req'[r].errors = {}
            /\ \A i \in req[r].inflight :
                 (req'[r].pc = "done" \/ i \notin req'[r].inflight)
                   => LET svc == req[r].plan.fetches[i]
                      IN /\ health[svc] = "down" => svc \in req'[r].errors
                         /\ health[svc] # "down" => svc \in req'[r].data
                         /\ \A n \in ServiceNames \ {svc} :
                              /\ n \in req[r].data <=> n \in req'[r].data
                              /\ n \in req[r].errors <=> n \in req'[r].errors
    ]_vars

\* A Parallel has returned with the data of one child and an error entry for
\* the other, whose service failed.
C14_Witness ==
  \E r \in Reqs :
    /\ req[r].pc = "done" /\ req[r].plan.kind = "Parallel"
    /\ req[r].data = {"b"} /\ req[r].errors = {"a"}

\* C15: on a gateway with an experimental_didResolveQueryPlan observer, an
\* invocation whose plan is being executed has had the observer called with
\* its plan.
C15_ObserverBeforeExecution ==
  \A r \in Reqs :
    (didResolveQueryPlan /\ req[r].pc = "exec") => req[r].resolved

\* C16: what an observer throws is not caught.  A load() whose createSchema
\* call meets composition errors with a throwing experimental_didFailComposition
\* throws what the observer threw; one whose composition succeeds with a
\* throwing experimental_didUpdateSchema throws what that observer threw, with
\* the rest of createSchema not run; an invocation whose plan has been executed
\* is rejected with what a throwing experimental_didResolveQueryPlan threw and
\* returns no response.
C16_ObserverExceptionsPropagate ==
  [][/\ \A l \in Loads :
          (load[l].pc = "loaded" /\ load'[l] # load[l] /\ config.throws)
            => LET failed == composeAndValidate(load[l].services).errors # {}
               IN /\ (failed /\ didFailComposition)
                       => (load'[l].pc = "threw" /\ load'[l].error = "didFailComposition")
                  /\ (~failed /\ didUpdateSchema)
                       => (load'[l].pc = "threw" /\ load'[l].error = "didUpdateSchema")
     /\ (schemaReport' # schemaReport /\ config.throws)
          => /\ \E l \in Loads : load[l].pc # "threw" /\ load'[l].pc = "threw"
                                 /\ load'[l].error = "didUpdateSchema"
             /\ serviceMap' = serviceMap /\ isReady' = isReady
     /\ (failReports' # failReports /\ config.throws)
          => \E l \in Loads : load[l].pc # "threw" /\ load'[l].pc = "threw"
                              /\ load'[l].error = "didFailComposition"
     /\ \A r \in Reqs :
          (req[r].pc = "exec" /\ req'[r].pc # "exec"
             /\ didResolveQueryPlan /\ config.throws)
            => /\ req'[r].pc = "failed" /\ req'[r].error = "didResolveQueryPlan"
               /\ req'[r].data = {} /\ req'[r].extensions = NoExtensions
    ]_vars

\* Each of the three observers has thrown: two load() calls and an invocation
\* have failed with what they threw.
C16_Witness ==
  /\ \E l \in Loads : load[l].error = "didFailComposition"
  /\ \E l \in Loads : load[l].error = "didUpdateSchema"
  /\ \E r \in Reqs : req[r].error = "didResolveQueryPlan"

\* C17: when no load() call and no constructor has thrown, the schema has
\* been composed at most once.
C17_ComposedOnce ==
  (gw # "failed" /\ \A l \in Loads : load[l].error = "none") => schema.id <= 1

\* C18: the active schema, and the schema experimental_didUpdateSchema was
\* last given as current, have defaultFieldResolverWithAliasSupport on every
\* field of every object type but the introspection types, and no resolver on
\* the fields of introspection types and of types that are not object types.
C18_AliasResolverInstalled ==
  \A s \in {schema, schemaReport.current} :
    \A t \in DOMAIN s.types :
      \A f \in DOMAIN s.types[t].fields :
        s.types[t].fields[f] =
          IF t \in {"Query", "Product", "Review"}
          THEN "defaultFieldResolverWithAliasSupport"
          ELSE "none"

\* A load() has composed a schema of two services and the schema update
\* observer has been given it.
C18_Witness ==
  /\ schema.svcs = {"a", "b"}
  /\ schemaReport.current = schema
  /\ \E l \in Loads : load[l].pc = "done"

\* C19: a ready gateway has a schema, and every service the schema was
\* composed from has a handle in the service map.
C19_ReadyImpliesServices ==
  isReady => /\ schema # NoSchema
             /\ \A n \in schema.svcs : serviceMap[n] # NoHandle

\* C20: no step takes a service's handle out of the service map; when a
\* load() throws on a definition without url, every definition before it in
\* the list is registered with its data source.
C20_ServiceMapNeverShrinks ==
  [][/\ \A n \in ServiceNames : serviceMap[n] # NoHandle => serviceMap'[n] # NoHandle
     /\ \A l \in Loads :
          (load[l].pc = "loading" /\ load'[l].error = "missingUrl")
            => \E services \in ServiceLists :
                 /\ config.kind = "remote" => EndpointsOf(services) = EndpointsOf(config.list)
                 /\ config.kind = "custom" => Names(services) = schema'.svcs
                 /\ \E i \in DOMAIN services : services[i].url = "none"
                 /\ \A i \in DOMAIN services :
                      (\A j \in 1..i : services[j].url # "none")
                        => serviceMap'[services[i].name] = DataSource(services[i])
    ]_vars

\* A load() has thrown on the second definition, which has no url, and the
\* first is registered with the url that list gave it.
C20_Witness ==
  /\ \E l \in Loads : load[l].error = "missingUrl"
  /\ serviceMap["a"] = "u2"
  /\ serviceMap["b"] = NoHandle

====
